---- MODULE Spec2Model ----
(***************************************************************************)
(* Model of app.py of sds-agent: the "Audit Mixture" handler, its two      *)
(* stages extract_chemicals_from_pdf and get_regulatory_limits, the model  *)
(* selector get_working_model, and the text-to-JSON conversion both stages *)
(* apply to the backend's answer.                                          *)
(*                                                                         *)
(* A text is a sequence of chunks [t, v]: a code fence FENCE, the word     *)
(* "json", whitespace, text that is no JSON, or one serialized JSON value. *)
(* A JSON value is [t, v] with t in str, num, null, arr, obj; a string's v *)
(* is its sequence of pieces, one of which may be the fence FENCE.         *)
(***************************************************************************)
EXTENDS Integers, Sequences, FiniteSets, TLC

\* ---------------------------------------------------------------- bounds
NumRuns == 2
MaxChem == 2
MaxRec == 2
PollClock == 2

Runs == 1..NumRuns

\* ------------------------------------------------------- sequence helpers
RECURSIVE SeqsUpTo(_, _)
SeqsUpTo(S, n) ==
    IF n = 0 THEN {<<>>}
    ELSE LET shorter == SeqsUpTo(S, n - 1)
         IN shorter \cup {Append(s, x) : s \in {q \in shorter : Len(q) = n - 1}, x \in S}

\* ------------------------------------------------------------ JSON values
JStr(pieces) == [t |-> "str", v |-> pieces]
JNum(n) == [t |-> "num", v |-> <<n>>]
JNull == [t |-> "null", v |-> <<>>]
JArr(items) == [t |-> "arr", v |-> items]
JObj(fields) == [t |-> "obj", v |-> fields]

\* Python truth value of a parsed JSON value: "if not compounds", "if compounds",
\* "if regulatory_data".
TruthyAlways(j) == TRUE
Truthy(j) ==
    CASE j.t = "null" -> FALSE
      [] j.t = "num" -> j.v # <<0>>
      [] j.t = "str" -> j.v # <<>>
      [] j.t = "arr" -> j.v # <<>>
      [] j.t = "obj" -> DOMAIN j.v # {}

\* --------------------------------------------------------------- texts
Fence == [t |-> "fence", v |-> <<>>]
Lang == [t |-> "lang", v |-> <<>>]
Ws == [t |-> "ws", v |-> <<>>]
Junk == [t |-> "junk", v |-> <<>>]
Doc(j) == [t |-> "json", v |-> <<j>>]

Bare(j) == <<Doc(j)>>
Fenced(j) == <<Fence, Lang, Ws, Doc(j), Ws, Fence>>

\* Inside a string literal the three backticks are the piece Backticks.
Backticks == "BACKTICKS"

\* str.replace(FENCE+json, "") on the pieces of one string literal
RECURSIVE RemoveFenceJsonPieces(_)
RemoveFenceJsonPieces(p) ==
    IF Len(p) = 0 THEN <<>>
    ELSE IF Len(p) >= 2 /\ p[1] = Backticks /\ p[2] = "json"
         THEN RemoveFenceJsonPieces(SubSeq(p, 3, Len(p)))
         ELSE <<p[1]>> \o RemoveFenceJsonPieces(Tail(p))

\* str.replace(FENCE, "") on the pieces of one string literal
RemoveFencePieces(p) == SelectSeq(p, LAMBDA x : x # Backticks)

\* The two replaces reach every character of the text, the inside of string
\* literals included.
RECURSIVE ReplaceInJson(_)
ReplaceInJson(j) ==
    CASE j.t = "str" -> JStr(RemoveFencePieces(RemoveFenceJsonPieces(j.v)))
      [] j.t = "arr" -> JArr([i \in DOMAIN j.v |-> ReplaceInJson(j.v[i])])
      [] j.t = "obj" -> JObj([k \in DOMAIN j.v |-> ReplaceInJson(j.v[k])])
      [] OTHER -> j

\* .replace(FENCE+json, "") over the chunks of a text
RECURSIVE RemoveFenceJson(_)
RemoveFenceJson(text) ==
    IF Len(text) = 0 THEN <<>>
    ELSE IF Len(text) >= 2 /\ text[1] = Fence /\ text[2] = Lang
         THEN RemoveFenceJson(SubSeq(text, 3, Len(text)))
         ELSE <<text[1]>> \o RemoveFenceJson(Tail(text))

\* .replace(FENCE, "") over the chunks of a text
RemoveFence(text) == SelectSeq(text, LAMBDA c : c # Fence)

ReplaceInside(text) ==
    [i \in DOMAIN text |->
        IF text[i].t = "json" THEN Doc(ReplaceInJson(text[i].v[1])) ELSE text[i]]

\* .strip()
RECURSIVE StripLeft(_)
StripLeft(text) ==
    IF Len(text) > 0 /\ text[1] = Ws THEN StripLeft(Tail(text)) ELSE text

RECURSIVE StripRight(_)
StripRight(text) ==
    IF Len(text) > 0 /\ text[Len(text)] = Ws
    THEN StripRight(SubSeq(text, 1, Len(text) - 1))
    ELSE text

Strip(text) == StripRight(StripLeft(text))

\* response.text.replace(FENCE+json, "").replace(FENCE, "").strip()
Clean(text) == Strip(ReplaceInside(RemoveFence(RemoveFenceJson(text))))

\* json.loads: the text must be exactly one JSON value
JsonOk(text) == Len(text) = 1 /\ text[1].t = "json"
JsonLoads(text) == text[1].v[1]

\* ------------------------------------------------------- the model selector
priority_list ==
    << "gemini-2.0-flash-lite-001", "gemini-2.0-flash-lite", "gemini-2.0-flash",
       "gemini-2.5-flash", "gemini-flash-latest" >>

Candidates == {priority_list[i] : i \in DOMAIN priority_list}

\* get_working_model returns the literal name, whatever the state of the service
get_working_model_second == priority_list[2]
get_working_model == "gemini-2.0-flash-lite-001"

MODEL_NAME == get_working_model

\* ------------------------------------------------------------- documents
\* An uploaded PDF is its sequence of bytes; temp.pdf holds such a sequence.
Documents == {<<1, 1>>, <<2>>}

\* f.write(bytes_data) through a descriptor opened at offset 0: the bytes
\* overwrite the head of the file and what another writer put behind them stays
WriteAtStart(file, bytes) ==
    IF Len(bytes) >= Len(file) THEN bytes
    ELSE bytes \o SubSeq(file, Len(bytes) + 1, Len(file))

FileStates == {"PROCESSING", "ACTIVE", "FAILED"}

\* ------------------------------------------------ what the backend may answer
Acetone == JObj([name |-> JStr(<<"Acetone">>), cas |-> JStr(<<"67-64-1">>)])
Benzene == JObj([name |-> JStr(<<"Benzene">>), cas |-> JStr(<<"71-43-2">>)])
ChemEntries == {Acetone, Benzene}

Chemicals(list) == JObj([chemicals |-> JArr(list)])

ExtractValues ==
    {Chemicals(l) : l \in SeqsUpTo(ChemEntries, MaxChem)}
    \cup { Chemicals(<<JNum(5)>>),
           Chemicals(<<JObj([name |-> JStr(<<"Acetone">>)])>>),
           JObj([chemicals |-> JStr(<<"Acetone">>)]),
           JObj([chemicals |-> JNull]),
           JObj([chemicals |-> JNum(5)]),
           JObj([ingredients |-> JArr(<<Acetone>>)]),
           JArr(<<Acetone>>) }

RecAcetone ==
    JObj([cas |-> JStr(<<"67-64-1">>), name |-> JStr(<<"Acetone">>),
          osha_pel |-> JStr(<<"1000 ppm">>), cal_pel |-> JStr(<<"None Listed">>),
          cal_stel |-> JStr(<<"750 ppm">>), niosh_rel |-> JStr(<<"250 ppm">>)])
\* a record one of whose limits is written with a code-span marker in it
RecMarked ==
    JObj([cas |-> JStr(<<"71-43-2">>), name |-> JStr(<<"Benzene">>),
          osha_pel |-> JStr(<<"1 ppm">>), cal_pel |-> JStr(<<"None Listed">>),
          cal_stel |-> JStr(<<"5 ppm ", Backticks, "ceiling", Backticks>>),
          niosh_rel |-> JStr(<<"0.1 ppm">>)])
Records == {RecAcetone, RecMarked}

LookupValues ==
    {JArr(l) : l \in SeqsUpTo(Records, MaxRec)}
    \cup { JArr(<<JObj([cas |-> JStr(<<"67-64-1">>), name |-> JStr(<<"Acetone">>)])>>),
           JArr(<<JNum(5)>>),
           RecAcetone,
           JStr(<<"None Listed">>),
           JNull }

\* the ways an answer wraps a value, and answers that hold no single value
Texts(values) ==
    {Bare(j) : j \in values} \cup {Fenced(j) : j \in values}
    \cup {<<Junk>>, <<>>} \cup {<<Doc(j), Ws, Doc(j)>> : j \in {JNull}}

ExtractTexts == Texts(ExtractValues)
LookupTexts == Texts(LookupValues)

\* the answers drawn when two sessions run side by side
FewExtractTexts == {Fenced(Chemicals(<<Acetone>>)), Bare(Chemicals(<<>>)), <<Junk>>}
FewLookupTexts == {Fenced(JArr(<<RecAcetone>>)), <<Junk>>}

\* ------------------------------------------------------------ pd.DataFrame
NaN == [t |-> "nan", v |-> <<>>]

IsScalar(j) == j.t \in {"str", "num", "null"}

\* pd.DataFrame(regulatory_data) accepts a list of objects (one row each) or a
\* list of scalars (one column, "0"); any other value raises ValueError
DataFrameRaises(j) ==
    ~ ( /\ j.t = "arr"
        /\ \/ \A i \in DOMAIN j.v : j.v[i].t = "obj"
           \/ \A i \in DOMAIN j.v : IsScalar(j.v[i]) )

Columns(j) ==
    IF \A i \in DOMAIN j.v : j.v[i].t = "obj"
    THEN UNION {DOMAIN j.v[i].v : i \in DOMAIN j.v}
    ELSE {"0"}

DataFrame(j) ==
    [i \in DOMAIN j.v |->
        [c \in Columns(j) |->
            IF j.v[i].t = "obj"
            THEN IF c \in DOMAIN j.v[i].v THEN j.v[i].v[c] ELSE NaN
            ELSE j.v[i]]]

\* df.rename(columns={...})
RenameColumn(c) ==
    CASE c = "name" -> "Ingredient"
      [] c = "cas" -> "CAS #"
      [] c = "osha_pel" -> "OSHA PEL"
      [] c = "cal_pel" -> "Cal/OSHA PEL"
      [] c = "cal_stel" -> "Cal/OSHA STEL"
      [] c = "niosh_rel" -> "NIOSH REL"
      [] OTHER -> c

Rename(frame) ==
    [i \in DOMAIN frame |->
        [d \in {RenameColumn(c) : c \in DOMAIN frame[i]} |->
            frame[i][CHOOSE c \in DOMAIN frame[i] : RenameColumn(c) = d]]]

\* ------------------------------------------------------------------ state
VARIABLES
    sessions,         \* the browser sessions that have a PDF in the uploader
    failing,          \* the models whose generate_content call raises
    temp_pdf,         \* the contents of the file "temp.pdf" of the working directory
    pc,               \* where each session's script run stands
    uploaded_file,    \* the PDF each session was given
    bytes_data,       \* uploaded_file.getvalue()
    g_file,           \* g_file.state.name
    slept,            \* the rounds of the wait loop done, counted modulo PollClock
    sent,             \* the bytes genai.upload_file read from temp.pdf
    calls,            \* the generate_content calls made, <<stage, model>>, in order
    response,         \* the raw response.text of each stage
    caught,           \* the exceptions the except clauses caught, in order
    data, compounds, chemicals_list, regulatory_data, df,
    ui                \* what st.error, st.warning, st.info and st.table showed

vars == << sessions, failing, temp_pdf, pc, uploaded_file, bytes_data, g_file, slept,
           sent, calls, response, caught, data, compounds, chemicals_list,
           regulatory_data, df, ui >>

Unset == [t |-> "unset", v |-> <<>>]
NoResponse == [got |-> FALSE, text |-> <<>>]
Got(text) == [got |-> TRUE, text |-> text]
NoBytes == <<>>

Exc(where, kind, model) == [at |-> where, kind |-> kind, model |-> model]

InitRun ==
    /\ temp_pdf = NoBytes
    /\ pc = [r \in Runs |-> "idle"]
    /\ bytes_data = [r \in Runs |-> NoBytes]
    /\ g_file = [r \in Runs |-> "none"]
    /\ slept = [r \in Runs |-> 0]
    /\ sent = [r \in Runs |-> NoBytes]
    /\ calls = [r \in Runs |-> <<>>]
    /\ response = [r \in Runs |-> [extract |-> NoResponse, lookup |-> NoResponse]]
    /\ caught = [r \in Runs |-> <<>>]
    /\ data = [r \in Runs |-> Unset]
    /\ compounds = [r \in Runs |-> Unset]
    /\ chemicals_list = [r \in Runs |-> Unset]
    /\ regulatory_data = [r \in Runs |-> Unset]
    /\ df = [r \in Runs |-> <<>>]
    /\ ui = [r \in Runs |-> <<>>]

\* one session with a PDF in the uploader
Init ==
    /\ sessions = {1}
    /\ failing \in SUBSET Candidates
    /\ uploaded_file \in [Runs -> Documents \cup {NoBytes}]
    /\ \A r \in Runs : uploaded_file[r] = NoBytes <=> r \notin sessions
    /\ InitRun

\* every session has a PDF in the uploader
InitConc ==
    /\ sessions = Runs
    /\ failing \in {{}, {MODEL_NAME}}
    /\ uploaded_file \in [Runs -> Documents]
    /\ InitRun

\* ------------------------------------------------------- the two stages
\* model.generate_content raises for a model of the failing set, and for an
\* attachment the service has not made ACTIVE
CallFails(r, model, stage) ==
    \/ model \in failing
    \/ stage = "extract" /\ g_file[r] # "ACTIVE"

\* what the try block of a stage ends with: the exception its except clause
\* catches, or none
StageException(stage, callFails, text) ==
    IF callFails THEN <<Exc(stage, "BackendError", MODEL_NAME)>>
    ELSE IF ~JsonOk(Clean(text)) THEN <<Exc(stage, "JSONDecodeError", MODEL_NAME)>>
    ELSE <<>>

\* extract_chemicals_from_pdf's return value
ExtractReturn(callFails, text) ==
    IF StageException("extract", callFails, text) # <<>>
    THEN Chemicals(<<>>)
    ELSE JsonLoads(Clean(text))

\* get_regulatory_limits's return value
LookupReturn(callFails, text) ==
    IF StageException("lookup", callFails, text) # <<>>
    THEN JArr(<<>>)
    ELSE JsonLoads(Clean(text))

\* data.get('chemicals', [])
GetChemicals(d) ==
    IF "chemicals" \in DOMAIN d.v THEN d.v["chemicals"] ELSE JArr(<<>>)

\* ---------------------------------------------------------------- actions
\* the outer except clause: st.error("System Error: ...")
HandlerExcept(r, kind) ==
    /\ caught' = [caught EXCEPT ![r] = Append(@, Exc("handler", kind, ""))]
    /\ ui' = [ui EXCEPT ![r] = Append(@, "error: System Error")]
    /\ pc' = [pc EXCEPT ![r] = "FAILED"]

\* "Audit Mixture" pressed: bytes_data = uploaded_file.getvalue()
Click(r) ==
    /\ r \in sessions
    /\ pc[r] = "idle"
    /\ bytes_data' = [bytes_data EXCEPT ![r] = uploaded_file[r]]
    /\ pc' = [pc EXCEPT ![r] = "open"]
    /\ UNCHANGED << sessions, failing, slept, temp_pdf, uploaded_file, g_file, sent, calls,
                    response, caught, data, compounds, chemicals_list, regulatory_data, df, ui >>

\* open("temp.pdf", "wb") truncates the file
OpenTemp(r) ==
    /\ pc[r] = "open"
    /\ temp_pdf' = NoBytes
    /\ pc' = [pc EXCEPT ![r] = "write"]
    /\ UNCHANGED << sessions, failing, slept, uploaded_file, bytes_data, g_file, sent, calls,
                    response, caught, data, compounds, chemicals_list, regulatory_data, df, ui >>

\* f.write(bytes_data) and the close that ends the with block
WriteTemp(r) ==
    /\ pc[r] = "write"
    /\ temp_pdf' = WriteAtStart(temp_pdf, bytes_data[r])
    /\ pc' = [pc EXCEPT ![r] = "upload"]
    /\ UNCHANGED << sessions, failing, slept, uploaded_file, bytes_data, g_file, sent, calls,
                    response, caught, data, compounds, chemicals_list, regulatory_data, df, ui >>

\* genai.upload_file(path="temp.pdf") reads the file as it is now
Upload(r) ==
    /\ pc[r] = "upload"
    /\ \/ /\ \E state \in FileStates :
                /\ g_file' = [g_file EXCEPT ![r] = state]
                /\ pc' = [pc EXCEPT ![r] = IF state = "PROCESSING" THEN "poll" ELSE "extract"]
          /\ sent' = [sent EXCEPT ![r] = temp_pdf]
          /\ UNCHANGED << caught, ui >>
       \/ /\ HandlerExcept(r, "UploadError")
          /\ UNCHANGED << g_file, sent >>
    /\ UNCHANGED << sessions, failing, slept, temp_pdf, uploaded_file, bytes_data, calls,
                    response, data, compounds, chemicals_list, regulatory_data, df >>

\* one round of the while loop: time.sleep(1), genai.get_file
Poll(r) ==
    /\ pc[r] = "poll"
    /\ slept' = [slept EXCEPT ![r] = (@ + 1) % PollClock]
    /\ \/ /\ \E state \in FileStates :
                /\ g_file' = [g_file EXCEPT ![r] = state]
                /\ pc' = [pc EXCEPT ![r] = IF state = "PROCESSING" THEN "poll" ELSE "extract"]
          /\ UNCHANGED << caught, ui >>
       \/ /\ HandlerExcept(r, "GetFileError")
          /\ UNCHANGED g_file
    /\ UNCHANGED << sessions, failing, temp_pdf, uploaded_file, bytes_data, sent, calls,
                    response, data, compounds, chemicals_list, regulatory_data, df >>

\* len(compounds) in the st.info line
HasLen(j) == j.t \in {"str", "arr", "obj"}

\* Phase 1 of the handler: extract_chemicals_from_pdf from its generate_content
\* call on, then data.get and the warning or the info line
Extract(r, texts) ==
    /\ pc[r] = "extract"
    /\ LET fails == CallFails(r, MODEL_NAME, "extract")
       IN \E text \in (IF fails THEN {<<>>} ELSE texts) :
            LET exc == StageException("extract", fails, text)
                d == ExtractReturn(fails, text)
                shown == IF exc # <<>> THEN <<"error: AI Error">> ELSE <<>>
                c == GetChemicals(d)
            IN /\ calls' = [calls EXCEPT ![r] = Append(@, <<"extract", MODEL_NAME>>)]
               /\ response' = [response EXCEPT ![r].extract =
                                  IF fails THEN @ ELSE Got(text)]
               /\ data' = [data EXCEPT ![r] = d]
               /\ IF d.t # "obj"
                  THEN /\ caught' = [caught EXCEPT ![r] =
                                        @ \o exc \o <<Exc("handler", "AttributeError", "")>>]
                       /\ ui' = [ui EXCEPT ![r] = @ \o shown \o <<"error: System Error">>]
                       /\ pc' = [pc EXCEPT ![r] = "FAILED"]
                       /\ UNCHANGED compounds
                  ELSE IF ~Truthy(c)
                  THEN /\ caught' = [caught EXCEPT ![r] = @ \o exc]
                       /\ ui' = [ui EXCEPT ![r] = @ \o shown \o <<"warning: No chemicals found">>]
                       /\ pc' = [pc EXCEPT ![r] = "DONE"]
                       /\ compounds' = [compounds EXCEPT ![r] = c]
                  ELSE IF ~HasLen(c)
                  THEN /\ caught' = [caught EXCEPT ![r] =
                                        @ \o exc \o <<Exc("handler", "TypeError", "")>>]
                       /\ ui' = [ui EXCEPT ![r] = @ \o shown \o <<"error: System Error">>]
                       /\ pc' = [pc EXCEPT ![r] = "FAILED"]
                       /\ compounds' = [compounds EXCEPT ![r] = c]
                  ELSE /\ caught' = [caught EXCEPT ![r] = @ \o exc]
                       /\ ui' = [ui EXCEPT ![r] = @ \o shown \o <<"info: Found ingredients">>]
                       /\ pc' = [pc EXCEPT ![r] = "lookup"]
                       /\ compounds' = [compounds EXCEPT ![r] = c]
    /\ UNCHANGED << sessions, failing, slept, temp_pdf, uploaded_file, bytes_data, g_file, sent,
                    chemicals_list, regulatory_data, df >>

\* Phase 2 of the handler: get_regulatory_limits(compounds), then the table
Lookup(r, texts) ==
    /\ pc[r] = "lookup"
    /\ LET fails == CallFails(r, MODEL_NAME, "lookup")
       IN \E text \in (IF fails THEN {<<>>} ELSE texts) :
            LET exc == StageException("lookup", fails, text)
                rd == LookupReturn(fails, text)
                shown == IF exc # <<>> THEN <<"error: Regulatory Lookup Error">> ELSE <<>>
            IN /\ chemicals_list' = [chemicals_list EXCEPT ![r] = compounds[r]]
               /\ calls' = [calls EXCEPT ![r] = Append(@, <<"lookup", MODEL_NAME>>)]
               /\ response' = [response EXCEPT ![r].lookup =
                                  IF fails THEN @ ELSE Got(text)]
               /\ regulatory_data' = [regulatory_data EXCEPT ![r] = rd]
               /\ IF ~Truthy(rd)
                  THEN /\ caught' = [caught EXCEPT ![r] = @ \o exc]
                       /\ ui' = [ui EXCEPT ![r] = @ \o shown]
                       /\ pc' = [pc EXCEPT ![r] = "DONE"]
                       /\ UNCHANGED df
                  ELSE IF DataFrameRaises(rd)
                  THEN /\ caught' = [caught EXCEPT ![r] =
                                        @ \o exc \o <<Exc("handler", "ValueError", "")>>]
                       /\ ui' = [ui EXCEPT ![r] = @ \o shown \o <<"error: System Error">>]
                       /\ pc' = [pc EXCEPT ![r] = "FAILED"]
                       /\ UNCHANGED df
                  ELSE /\ caught' = [caught EXCEPT ![r] = @ \o exc]
                       /\ ui' = [ui EXCEPT ![r] = @ \o shown \o <<"table", "download">>]
                       /\ pc' = [pc EXCEPT ![r] = "DONE"]
                       /\ df' = [df EXCEPT ![r] = Rename(DataFrame(rd))]
    /\ UNCHANGED << sessions, failing, slept, temp_pdf, uploaded_file, bytes_data, g_file, sent,
                    data, compounds >>

\* ---------------------------------------------------------- specifications
Next ==
    \E r \in Runs :
        \/ Click(r)
        \/ OpenTemp(r)
        \/ WriteTemp(r)
        \/ Upload(r)
        \/ Poll(r)
        \/ Extract(r, ExtractTexts)
        \/ Lookup(r, LookupTexts)

Spec == Init /\ [][Next]_vars

NextConc ==
    \E r \in Runs :
        \/ Click(r)
        \/ OpenTemp(r)
        \/ WriteTemp(r)
        \/ Upload(r)
        \/ Poll(r)
        \/ Extract(r, FewExtractTexts)
        \/ Lookup(r, FewLookupTexts)

ConcSpec == InitConc /\ [][NextConc]_vars

\* a session's script run keeps executing once started
Step(r) ==
    \/ OpenTemp(r)
    \/ WriteTemp(r)
    \/ Upload(r)
    \/ Poll(r)
    \/ Extract(r, FewExtractTexts)
    \/ Lookup(r, FewLookupTexts)

LiveSpec == ConcSpec /\ \A r \in Runs : WF_vars(Step(r))

\* ------------------------------------------------- vocabulary of the claims
Stages == {"extract", "lookup"}
Ended(r) == pc[r] \in {"DONE", "FAILED"}
StageRan(r, stage) == \E i \in DOMAIN calls[r] : calls[r][i][1] = stage

\* the models a stage invoked, in order
StageCalls(r, stage) ==
    LET mine == SelectSeq(calls[r], LAMBDA c : c[1] = stage)
    IN [i \in DOMAIN mine |-> mine[i][2]]

\* the value a stage returned to the handler
StageResult(r, stage) == IF stage = "extract" THEN data[r] ELSE regulatory_data[r]

\* whether an invoke of this candidate in this stage of this run fails
InvokeFails(r, m, stage) == CallFails(r, m, stage)

LastCandidate == priority_list[Len(priority_list)]

\* the JSON value of a response as the backend wrote it
HasOneValue(text) == Cardinality({i \in DOMAIN text : text[i].t = "json"}) = 1
RawValue(text) == text[CHOOSE i \in DOMAIN text : text[i].t = "json"].v[1]

IsStr(j) == j.t = "str"
HasStrKeys(j, keys) ==
    /\ j.t = "obj"
    /\ keys \subseteq DOMAIN j.v
    /\ \A k \in keys : IsStr(j.v[k])

EntryKeys == {"name", "cas"}
LimitFields == {"osha_pel", "cal_pel", "cal_stel", "niosh_rel"}
RecordKeys == EntryKeys \cup LimitFields

\* {"chemicals": [{name, cas}, ...]}
ExtractShape(j) ==
    /\ j.t = "obj"
    /\ "chemicals" \in DOMAIN j.v
    /\ j.v["chemicals"].t = "arr"
    /\ \A i \in DOMAIN j.v["chemicals"].v : HasStrKeys(j.v["chemicals"].v[i], EntryKeys)

\* [{cas, name, osha_pel, cal_pel, cal_stel, niosh_rel}, ...]
LookupShape(j) ==
    /\ j.t = "arr"
    /\ \A i \in DOMAIN j.v : HasStrKeys(j.v[i], RecordKeys)

\* a stage got a text that parses, and the parsed value
Parsed(r, stage) ==
    /\ response[r][stage].got
    /\ JsonOk(Clean(response[r][stage].text))
ParsedValue(r, stage) == JsonLoads(Clean(response[r][stage].text))

\* ----------------------------------------------------------------- claims
\* C1: when every candidate's model call fails, a stage that ran has returned
\* no success value and has failed with AllCandidatesExhausted whose cause is
\* the error of the last candidate of the list.
C1_AllFailExhausted ==
    \A r \in Runs : \A stage \in Stages :
        (StageRan(r, stage) /\ \A m \in Candidates : InvokeFails(r, m, stage))
        => /\ StageResult(r, stage) = Unset
           /\ \E i \in DOMAIN caught[r] :
                 /\ caught[r][i].kind = "AllCandidatesExhausted"
                 /\ caught[r][i].model = LastCandidate

\* C2: with the first two candidates failing and the third succeeding, a stage
\* that ran made exactly three invoke calls, in list order, and its result is
\* the one parsed from the text the third candidate returned.
C2_FallbackOrder ==
    \A r \in Runs : \A stage \in Stages :
        ( /\ StageRan(r, stage)
          /\ InvokeFails(r, priority_list[1], stage)
          /\ InvokeFails(r, priority_list[2], stage)
          /\ ~InvokeFails(r, priority_list[3], stage) )
        => /\ StageCalls(r, stage) = SubSeq(priority_list, 1, 3)
           /\ response[r][stage].got

\* C3: when the first candidate's invoke succeeds, a stage that ran made exactly
\* one invoke call, to that candidate, and works on the text it returned.
C3_FirstSuccessOneCall ==
    \A r \in Runs : \A stage \in Stages :
        (StageRan(r, stage) /\ ~InvokeFails(r, priority_list[1], stage))
        => /\ StageCalls(r, stage) = <<priority_list[1]>>
           /\ response[r][stage].got

C3_Witness ==
    /\ StageRan(1, "lookup")
    /\ ~InvokeFails(1, priority_list[1], "lookup")
    /\ response[1]["lookup"].got
    /\ Len(calls[1]) = 2

\* C4: a run whose extraction yields an empty ingredient list ends without any
\* call to the lookup backend and with no limits, and the lookup stage is never
\* handed an empty chemical list.
C4_EmptySkipsLookup ==
    \A r \in Runs :
        /\ compounds[r] = JArr(<<>>)
           => /\ pc[r] = "DONE"
              /\ ~StageRan(r, "lookup")
              /\ regulatory_data[r] = Unset
              /\ df[r] = <<>>
        /\ chemicals_list[r] # JArr(<<>>)

C4_Witness ==
    /\ Parsed(1, "extract")
    /\ ParsedValue(1, "extract") = Chemicals(<<>>)
    /\ compounds[1] = JArr(<<>>)
    /\ pc[1] = "DONE"

\* C5: a run whose extraction stage failed (its model call raised, or its
\* response did not parse) is FAILED: it is not DONE and it holds no ingredient
\* list, empty or other.
C5_ExtractFailureFails ==
    \A r \in Runs :
        (\E i \in DOMAIN caught[r] : caught[r][i].at = "extract")
        => /\ pc[r] = "FAILED"
           /\ compounds[r] = Unset

\* an ingredient and a record that agree in CAS number and name
Matches(entry, rec) ==
    /\ entry.t = "obj" /\ rec.t = "obj"
    /\ EntryKeys \subseteq DOMAIN entry.v
    /\ EntryKeys \subseteq DOMAIN rec.v
    /\ \A k \in EntryKeys : entry.v[k] = rec.v[k]

\* C6: after a run that reached DONE through the lookup stage, both stages
\* having got well-shaped answers, the record list is as long as the ingredient
\* list and every ingredient has exactly one record that matches it by CAS
\* number and name.
C6_Aligned ==
    \A r \in Runs :
        ( /\ pc[r] = "DONE"
          /\ Parsed(r, "extract") /\ ExtractShape(ParsedValue(r, "extract"))
          /\ Parsed(r, "lookup") /\ LookupShape(ParsedValue(r, "lookup")) )
        => /\ compounds[r].t = "arr"
           /\ regulatory_data[r].t = "arr"
           /\ Len(regulatory_data[r].v) = Len(compounds[r].v)
           /\ \A i \in DOMAIN compounds[r].v :
                 Cardinality({k \in DOMAIN regulatory_data[r].v :
                                 Matches(compounds[r].v[i], regulatory_data[r].v[k])}) = 1

\* C7: a response that parses to a value of the wrong shape fails its stage:
\* the run is FAILED, and the value reaches neither the lookup stage nor the
\* table.
C7_ShapeChecked ==
    \A r \in Runs :
        /\ (Parsed(r, "extract") /\ ~ExtractShape(ParsedValue(r, "extract")))
           => /\ pc[r] = "FAILED"
              /\ compounds[r] = Unset
              /\ ~StageRan(r, "lookup")
        /\ (Parsed(r, "lookup") /\ ~LookupShape(ParsedValue(r, "lookup")))
           => /\ pc[r] = "FAILED"
              /\ df[r] = <<>>

\* C8: when the lookup backend answered with a list of records, the table of
\* the finished run has one row per record, in the backend's order, and each of
\* the four limit fields of a row is the value the backend wrote.
C8_LimitsPreserved ==
    \A r \in Runs :
        ( /\ pc[r] = "DONE"
          /\ Parsed(r, "extract") /\ ExtractShape(ParsedValue(r, "extract"))
          /\ response[r]["lookup"].got
          /\ HasOneValue(response[r]["lookup"].text)
          /\ LookupShape(RawValue(response[r]["lookup"].text))
          /\ df[r] # <<>> )
        => LET raw == RawValue(response[r]["lookup"].text)
           IN /\ Len(df[r]) = Len(raw.v)
              /\ \A i \in DOMAIN raw.v : \A f \in LimitFields :
                    /\ RenameColumn(f) \in DOMAIN df[r][i]
                    /\ df[r][i][RenameColumn(f)] = raw.v[i].v[f]

\* C9: the bytes a run uploaded for its extraction stage are the bytes of the
\* document that run was given.
C9_OwnDocument ==
    \A r \in Runs : g_file[r] # "none" => sent[r] = uploaded_file[r]

\* C10: every started run reaches DONE or FAILED.
C10_Terminates ==
    \A r \in Runs : (pc[r] # "idle") ~> Ended(r)

====
